---- MODULE Spec2Model ----
(***************************************************************************)
(* Model of the Pico UDP client: the shared transport manager              *)
(* (shared_transport_manager.py) and the exchange engine of PicoClient     *)
(* (pico_client.py).                                                       *)
(*                                                                         *)
(* asyncio runs one coroutine at a time and switches only at an await that *)
(* really suspends, so every action below is one such atomic stretch. The  *)
(* only suspensions of the engine are asyncio.sleep (retry delay) and the  *)
(* queue poll of _wait_for_response.                                       *)
(*                                                                         *)
(* Time is counted in polls of the response queue (0.5 s each).            *)
(***************************************************************************)
EXTENDS Integers, Sequences, FiniteSets, TLC

\* ------------------------------------------------------------- bounds
\* Scaled-down SharedTransportManager._idp_range_size (10000 in the source).
IdpRangeSize == 2
\* Largest number of ranges the allocator hands out in a run.
MaxAlloc == 3
\* Largest max_reconnect_attempts a client is configured with
MaxReconnect == 3
\* Largest number of callback tasks created and not yet run
MaxCallbacks == 2
\* Largest number of messages waiting in the response queues at a time.
MaxQueue == 1

\* ---------------------------------------------------- program constants
FirstIdpRange == 1
AckRes == 99
RetryAttempts == 3
MaxIdpSync == 5
ResponseTimeoutSec == 2
AckTimeoutSec == 2
RetryDelaySec == 2
PollsPerSecond == 2

\* response_timeout, ack_timeout and retry_delay, in polls
ResponseTimeout == ResponseTimeoutSec * PollsPerSecond
AckTimeout == AckTimeoutSec * PollsPerSecond
RetryDelay == RetryDelaySec * PollsPerSecond

\* ------------------------------------------------------------ universe
Clients == {"c1", "c2", "c3"}
NoClient == "none"
DeviceIds == {"d1", "d2"}
NoDevice == "none"

\* PicoClient.device_id; c3 is a second client instance built for device d1.
DeviceIdOf(c) == IF c = "c2" THEN "d2" ELSE "d1"

Tasks == {"t1", "t2"}
\* The client a caller's task runs its public operations on.
ClientOf(t) == "c1"

NoIdp == -1
NoRes == -1
NoTime == -1

VARIABLES
  initialized,    \* SharedTransportManager._initialized
  devices,        \* SharedTransportManager._devices
  nextIdpRange,   \* SharedTransportManager._next_idp_range
  connected,      \* PicoClient._connected
  idpRangeStart,  \* PicoClient._idp_range_start
  idpRangeSize,   \* PicoClient._idp_range_size
  idpCounter,     \* PicoClient._idp_counter
  queue,          \* PicoClient._response_queue
  allocLog,       \* history: the ranges allocated, in allocation order
  lastRoute,      \* history: what datagram_received did with the last datagram
  idpLog,         \* history: per client, calls of _get_next_idp since connect
  task,           \* per caller task: the public operation it is running
  wrap,           \* the call of an operation through auto_reconnect's wrapper
  rx,             \* history of SharedPicoProtocol: datagrams and callbacks
  boot            \* connect() calls in progress, _instance and _init_lock

mgrVars == <<initialized, devices, nextIdpRange, allocLog>>
sessVars == <<connected, idpRangeStart, idpRangeSize, idpCounter, idpLog>>
vars == <<initialized, devices, nextIdpRange, connected, idpRangeStart,
          idpRangeSize, idpCounter, queue, allocLog, lastRoute, idpLog, task, wrap, rx, boot>>

\* ------------------------------------------------------------ manager
NoReg == [owner |-> NoClient, start |-> 0, size |-> 0]

Registered(d) == devices[d] # NoReg

InRange(reg, idp) == reg.start <= idp /\ idp < reg.start + reg.size

\* Mutant of FindDeviceByIdp: the upper end of the range is not checked.
FindDeviceByIdpNoUpper(idp) ==
  LET hits == {d \in DeviceIds : Registered(d) /\ devices[d].start <= idp}
  IN IF hits = {} THEN NoDevice
     ELSE CHOOSE d \in hits : \A e \in hits : devices[d].start <= devices[e].start

\* _find_device_by_idp: the first registration, in dict order, whose range
\* holds idp. Dict order is insertion order; every insertion takes a larger
\* start than all before it, so the first match is the one of least start.
FindDeviceByIdp(idp) ==
  LET hits == {d \in DeviceIds : Registered(d) /\ InRange(devices[d], idp)}
  IN IF hits = {} THEN NoDevice
     ELSE CHOOSE d \in hits : \A e \in hits : devices[d].start <= devices[e].start

\* register_device, lines 204-206: the range handed to a new registration
\* and the allocator's pointer after it.
\* Mutant of AllocStart: the lowest range no registration holds is handed
\* out, so that a released range is used again.
AllocStartReuse ==
  LET free == {FirstIdpRange + k * IdpRangeSize : k \in 0 .. MaxAlloc}
                \ {devices[d].start : d \in DeviceIds} IN
  CHOOSE x \in free : \A y \in free : x <= y

AllocStart == nextIdpRange

\* Mutant of AllocNext: the pointer advances one short of the range size.
AllocNextShort == nextIdpRange + IdpRangeSize - 1
AllocNext == nextIdpRange + IdpRangeSize

\* Mutant of RegisterDevice: an id that is registered already gets a new
\* range.
RegisterDeviceAlways(c) ==
  LET d == DeviceIdOf(c) IN
  /\ devices' = [devices EXCEPT ![d] =
        [owner |-> c, start |-> AllocStart, size |-> IdpRangeSize]]
  /\ nextIdpRange' = AllocNext
  /\ allocLog' = Append(allocLog,
        [id |-> d, start |-> AllocStart, size |-> IdpRangeSize])

\* register_device for client c: <<start, size>> returned; the manager's
\* primed variables are set here.
RegisterDevice(c) ==
  LET d == DeviceIdOf(c) IN
  IF Registered(d)
    THEN /\ UNCHANGED <<devices, nextIdpRange, allocLog>>
    ELSE /\ devices' = [devices EXCEPT ![d] =
                 [owner |-> c, start |-> AllocStart, size |-> IdpRangeSize]]
         /\ nextIdpRange' = AllocNext
         /\ allocLog' = Append(allocLog,
                 [id |-> d, start |-> AllocStart, size |-> IdpRangeSize])

\* unregister_device
UnregisterDevice(d) ==
  devices' = [devices EXCEPT ![d] = NoReg]

\* ------------------------------------------------------------ session
\* Mutant of NextCounter: the wrap comes one value late.
NextCounterLateWrap(c) ==
  IF idpCounter[c] + 1 > idpRangeStart[c] + idpRangeSize[c]
    THEN idpRangeStart[c]
    ELSE idpCounter[c] + 1

\* Mutant of NextCounter: the increment is lost when the call comes while
\* an exchange of the client is in flight.
NextCounterLostUpdate(c) ==
  IF \E u \in Tasks : ClientOf(u) = c /\ task[u].pc = "wait"
    THEN idpCounter[c]
    ELSE IF idpCounter[c] + 1 >= idpRangeStart[c] + idpRangeSize[c]
      THEN idpRangeStart[c]
      ELSE idpCounter[c] + 1

\* Mutant of NextCounter: no wrap at all.
NextCounterNoWrap(c) == idpCounter[c] + 1

\* _get_next_idp: the value returned is the counter before the call.
NextCounter(c) ==
  IF idpCounter[c] + 1 >= idpRangeStart[c] + idpRangeSize[c]
    THEN idpRangeStart[c]
    ELSE idpCounter[c] + 1

\* History of _get_next_idp: n calls since the last connect without a reset
\* in between (0 after a reset made the count meaningless once it is over),
\* the value of the last call, and the values returned since the last
\* connect (used).
LogCap == IdpRangeSize + 2
NoLog == [n |-> 0, last |-> 0, fresh |-> FALSE, used |-> {}]
LogCall(c) ==
  LET u == idpLog[c].used \cup {idpCounter[c]} IN
  IF idpLog[c].fresh /\ idpLog[c].n < LogCap
    THEN [n |-> idpLog[c].n + 1, last |-> idpCounter[c], fresh |-> TRUE, used |-> u]
    ELSE [NoLog EXCEPT !.used = u]
LogReset(c) == [NoLog EXCEPT !.used = idpLog[c].used]

\* connect(), shared transport. bindOk: whether create_datagram_endpoint
\* succeeds when the transport is not initialized yet.
Connect(c, bindOk) ==
  /\ ~connected[c]
  /\ IF ~initialized /\ ~bindOk
       THEN \* initialize raises, connect raises ConnectionError
            UNCHANGED <<mgrVars, sessVars>>
       ELSE /\ Registered(DeviceIdOf(c)) \/ Len(allocLog) < MaxAlloc
            /\ initialized' = TRUE
            /\ RegisterDevice(c)
            /\ idpRangeStart' = [idpRangeStart EXCEPT ![c] = devices'[DeviceIdOf(c)].start]
            /\ idpRangeSize' = [idpRangeSize EXCEPT ![c] = devices'[DeviceIdOf(c)].size]
            /\ idpCounter' = [idpCounter EXCEPT ![c] = devices'[DeviceIdOf(c)].start]
            /\ connected' = [connected EXCEPT ![c] = TRUE]
            /\ idpLog' = [idpLog EXCEPT ![c] = [n |-> 0, last |-> 0, fresh |-> TRUE, used |-> {}]]
  /\ UNCHANGED <<queue, lastRoute, task>>
  /\ UNCHANGED <<wrap, rx, boot>>

\* disconnect()
Disconnect(c) ==
  /\ connected[c]
  /\ UnregisterDevice(DeviceIdOf(c))
  /\ connected' = [connected EXCEPT ![c] = FALSE]
  /\ UNCHANGED <<initialized, nextIdpRange, allocLog, idpRangeStart,
                 idpRangeSize, idpCounter, idpLog, queue, lastRoute, task>>
  /\ UNCHANGED <<wrap, rx, boot>>

\* connect() step by step. pc: where each client's connect() call stands
\* ("idle": not running, "wait_lock": suspended in the acquire of
\* _init_lock, "binding": suspended in create_datagram_endpoint with the
\* lock held); lock: the client holding _init_lock; nInstances: the
\* managers created by get_instance; nBinds: the endpoints bound; waited:
\* the clients whose last connect() call was suspended on the lock.
NoBoot ==
  [pc |-> [c \in Clients |-> "idle"], lock |-> NoClient,
   nInstances |-> 0, nBinds |-> 0, waited |-> {}]

\* get_instance, lines 131-140: no suspension between the test and the
\* assignment of _instance.
GetInstance(b) == [b EXCEPT !.nInstances = IF @ = 0 THEN 1 ELSE @]

\* Mutant of InitLockFree: initialize enters without the lock.
InitLockFreeAlways == TRUE

\* async with self._init_lock, line 151: whether the acquire goes through.
InitLockFree == boot.lock = NoClient

\* connect(), lines 118-138: register_device, the counter and the flag, with
\* no suspension in between.
Attach(c) ==
  /\ Registered(DeviceIdOf(c)) \/ Len(allocLog) < MaxAlloc
  /\ RegisterDevice(c)
  /\ idpRangeStart' = [idpRangeStart EXCEPT ![c] = devices'[DeviceIdOf(c)].start]
  /\ idpRangeSize' = [idpRangeSize EXCEPT ![c] = devices'[DeviceIdOf(c)].size]
  /\ idpCounter' = [idpCounter EXCEPT ![c] = devices'[DeviceIdOf(c)].start]
  /\ connected' = [connected EXCEPT ![c] = TRUE]
  /\ idpLog' = [idpLog EXCEPT ![c] = [n |-> 0, last |-> 0, fresh |-> TRUE, used |-> {}]]

\* connect() is called, lines 103-116: get_instance, the is_initialized
\* test, and initialize up to its first suspension.
ConnectBegin(c) ==
  /\ ~connected[c]
  /\ boot.pc[c] = "idle"
  /\ LET b == [GetInstance(boot) EXCEPT !.waited = @ \ {c}] IN
     IF initialized
       THEN /\ Attach(c)
            /\ boot' = b
            /\ UNCHANGED initialized
       ELSE /\ boot' = IF InitLockFree
                         THEN [b EXCEPT !.pc[c] = "binding", !.lock = c]
                         ELSE [b EXCEPT !.pc[c] = "wait_lock", !.waited = @ \cup {c}]
            /\ UNCHANGED <<mgrVars, sessVars>>
  /\ UNCHANGED <<queue, lastRoute, task, wrap, rx>>

\* initialize, lines 151-156: the lock is acquired after a wait; with
\* _initialized set the call returns and connect() goes on, else it binds.
LockAcquired(c) ==
  /\ boot.pc[c] = "wait_lock"
  /\ InitLockFree
  /\ IF initialized
       THEN /\ Attach(c)
            /\ boot' = [boot EXCEPT !.pc[c] = "idle"]
            /\ UNCHANGED initialized
       ELSE /\ boot' = [boot EXCEPT !.pc[c] = "binding", !.lock = c]
            /\ UNCHANGED <<mgrVars, sessVars>>
  /\ UNCHANGED <<queue, lastRoute, task, wrap, rx>>

\* initialize, lines 161-173: create_datagram_endpoint returns or raises;
\* the lock is released; connect() goes on or raises ConnectionError.
BindDone(c, bindOk) ==
  /\ boot.pc[c] = "binding"
  /\ LET b == [boot EXCEPT !.pc[c] = "idle",
                           !.lock = IF @ = c THEN NoClient ELSE @] IN
     IF bindOk
       THEN /\ initialized' = TRUE
            /\ Attach(c)
            /\ boot' = [b EXCEPT !.nBinds = @ + 1]
       ELSE /\ boot' = b
            /\ UNCHANGED <<mgrVars, sessVars>>
  /\ UNCHANGED <<queue, lastRoute, task, wrap, rx>>

\* _get_next_idp called on its own
GetNextIdp(c) ==
  /\ idpCounter' = [idpCounter EXCEPT ![c] = NextCounter(c)]
  /\ idpLog' = [idpLog EXCEPT ![c] = LogCall(c)]
  /\ UNCHANGED <<mgrVars, connected, idpRangeStart, idpRangeSize, queue, lastRoute, task>>
  /\ UNCHANGED <<wrap, rx, boot>>

\* reset_idp() -> _reset_idp_counter
ResetIdp(c) ==
  /\ idpCounter' = [idpCounter EXCEPT ![c] = idpRangeStart[c]]
  /\ idpLog' = [idpLog EXCEPT ![c] = LogReset(c)]
  /\ UNCHANGED <<mgrVars, connected, idpRangeStart, idpRangeSize, queue, lastRoute, task>>
  /\ UNCHANGED <<wrap, rx, boot>>

\* ------------------------------------------------------------- routing
RECURSIVE SumLen(_, _)
SumLen(q, cs) ==
  IF cs = {} THEN 0
  ELSE LET c == CHOOSE x \in cs : TRUE IN Len(q[c]) + SumLen(q, cs \ {c})

Queued == SumLen(queue, Clients)

\* SharedPicoProtocol.datagram_received for a well-formed JSON object m.
DatagramReceived(m) ==
  /\ initialized
  /\ LET d == FindDeviceByIdp(m.idp) IN
     IF m.idp = NoIdp
       THEN /\ lastRoute' = "no_idp"
            /\ UNCHANGED queue
       ELSE IF d = NoDevice
         THEN /\ lastRoute' = "no_device"
              /\ UNCHANGED queue
         ELSE /\ Queued < MaxQueue
              /\ queue' = [queue EXCEPT ![devices[d].owner] = Append(@, m)]
              /\ lastRoute' = "delivered"
  /\ UNCHANGED <<mgrVars, sessVars, task>>
  /\ UNCHANGED <<wrap, rx, boot>>

\* ------------------------------------------------------------ protocol
\* A datagram as it comes from the socket: bytes that are not UTF-8, text
\* that is not JSON, JSON that is not an object, an object whose idp cannot
\* be compared with a number, or an object msg as the exchange engine reads
\* it.
RawKinds == {"not_utf8", "not_json", "not_object", "bad_idp", "object"}
Raw(kind, msg) == [kind |-> kind, msg |-> msg]

\* Before any datagram. data and prev: the kinds of the last datagram and of
\* the one before it; msg: the last datagram when it was an object;
\* outcome: what datagram_received did with it; raised: an exception left
\* datagram_received or _run_callback; scheduled: the callback tasks created
\* and not yet run, each with whether its callback raises; cbLast: how the
\* last callback task ended; after: cbLast when the last datagram came.
NoRx ==
  [data |-> "none", prev |-> "none", msg |-> [idp |-> -1, res |-> -1, frm |-> "", mod |-> ""],
   outcome |-> "none", raised |-> FALSE, scheduled |-> <<>>,
   cbLast |-> "none", after |-> "none"]

\* Mutant of Caught: only the first except clause.
CaughtJsonOnly(kind) == kind = "not_json"

\* Lines 72-77: what the body raises on a datagram of this kind is caught
\* by except json.JSONDecodeError (text that is not JSON) or by except
\* Exception (UnicodeDecodeError, AttributeError of .get, TypeError of the
\* range comparison).
Caught(kind) == kind \in {"not_utf8", "not_json", "not_object", "bad_idp"}

\* SharedPicoProtocol.datagram_received for the datagram raw. hasCb: the
\* cmd of the message is a key of the registration's event_callbacks;
\* cbFails: that callback raises when it is run on the message.
DatagramBytes(raw, hasCb, cbFails) ==
  /\ initialized
  /\ LET r == [rx EXCEPT !.data = raw.kind, !.prev = rx.data, !.msg = raw.msg,
                         !.after = rx.cbLast]
         d == FindDeviceByIdp(raw.msg.idp) IN
     IF raw.kind # "object"
       THEN /\ rx' = [r EXCEPT !.outcome = "dropped",
                               !.raised = @ \/ ~Caught(raw.kind)]
            /\ UNCHANGED queue
       ELSE IF raw.msg.idp = NoIdp
         THEN /\ rx' = [r EXCEPT !.outcome = "no_idp"]
              /\ UNCHANGED queue
         ELSE IF d = NoDevice
           THEN /\ rx' = [r EXCEPT !.outcome = "no_device"]
                /\ UNCHANGED queue
           ELSE /\ Queued < MaxQueue
                /\ hasCb => Len(rx.scheduled) < MaxCallbacks
                /\ queue' = [queue EXCEPT ![devices[d].owner] = Append(@, raw.msg)]
                /\ rx' = [r EXCEPT !.outcome = "delivered",
                                   !.scheduled = IF hasCb THEN Append(@, cbFails) ELSE @]
  /\ UNCHANGED <<mgrVars, sessVars, lastRoute, task, wrap, boot>>

\* Mutant of RunCallback: the exception of the callback leaves the task.
RunCallbackUncaught ==
  /\ rx.scheduled # <<>>
  /\ rx' = [rx EXCEPT !.scheduled = Tail(@),
                      !.cbLast = IF Head(rx.scheduled) THEN "failed" ELSE "ok",
                      !.raised = @ \/ Head(rx.scheduled)]
  /\ UNCHANGED <<mgrVars, sessVars, queue, lastRoute, task, wrap, boot>>

\* SharedPicoProtocol._run_callback: the task created at line 64 runs; an
\* exception of the callback is caught and printed.
RunCallback ==
  /\ rx.scheduled # <<>>
  /\ rx' = [rx EXCEPT !.scheduled = Tail(@),
                      !.cbLast = IF Head(rx.scheduled) THEN "failed" ELSE "ok"]
  /\ UNCHANGED <<mgrVars, sessVars, queue, lastRoute, task, wrap, boot>>

\* ------------------------------------------------------ exchange engine
\* A decoded datagram: idp, res, frm, and the operating mode a status
\* payload reports (mod), by the capability tables it belongs to.
NoMsg == [idp |-> NoIdp, res |-> NoRes, frm |-> "", mod |-> ""]

NoOp == [kind |-> "none", force |-> FALSE, retry |-> FALSE, full |-> FALSE]

\* The state of a caller's task. attempt, idp_sync_attempt, idp, got_ack and
\* ack_received_time are the locals of _execute_command_with_retry and
\* _wait_for_response; elapsed is time.time() - (end_time - timeout);
\* the n* fields, ackIdp, okIdp, skipped and exit* are history: the runs of
\* _execute_command_with_retry the operation has started (nRuns), the
\* command packets sent (nExecCmd), the exchanges that failed (nFail) and the
\* counter resets (nReset) of the current run, the closing ACKs sent and the
\* exchanges that succeeded in the operation, whether the running exchange took a message
\* of another idp from the queue, and how the last exchange ended (exit,
\* whether it had got its ACK, whether it ended after ack_received_time +
\* ack_timeout) until the next one begins; sentUpd: the operation has sent
\* a packet of its upd_pico command; alone: no other task of the client has
\* called _get_next_idp or _reset_idp_counter since this task's last call
\* of _get_next_idp; reused: the idp of the exchange in flight had been
\* returned by an earlier call of _get_next_idp since the connect.
IdleTask ==
  [pc |-> "idle", op |-> NoOp, stage |-> "none", result |-> "none",
   attempt |-> 0, idp_sync_attempt |-> 0, idp |-> 0,
   got_ack |-> FALSE, ack_received_time |-> NoTime, elapsed |-> 0,
   sleepLeft |-> 0,
   nRuns |-> 0, nExecCmd |-> 0, nFail |-> 0, nReset |-> 0,
   nAck |-> 0, ackIdp |-> 0, nOk |-> 0, okIdp |-> 0,
   skipped |-> FALSE, exit |-> "none", exitAck |-> FALSE, exitLate |-> FALSE,
   sentUpd |-> FALSE, alone |-> FALSE, reused |-> FALSE]

\* An exception leaves the public operation / the operation returns.
Raise(tk, err) == [tk EXCEPT !.pc = "done", !.result = err]
Return(tk) == [tk EXCEPT !.pc = "done", !.result = "ok"]

\* A step's effect: the task's new state and what happens to the counter.
Effect(tk, eff) == [tk |-> tk, eff |-> eff]

\* send_to_device: raises ValueError unless the device id is registered.
CanSend(c) == Registered(DeviceIdOf(c))

\* Mutant of BeginExchange: the idp is drawn once per run, the later inner
\* iterations send the same one again.
BeginExchangeSameIdp(tk, c) ==
  LET i == IF tk.nExecCmd = 0 THEN idpCounter[c] ELSE tk.idp IN
  Effect(IF CanSend(c)
           THEN [tk EXCEPT !.pc = "wait", !.idp = i,
                           !.got_ack = FALSE, !.ack_received_time = NoTime,
                           !.elapsed = 0, !.skipped = FALSE,
                           !.exit = "none", !.exitAck = FALSE, !.exitLate = FALSE,
                           !.nExecCmd = @ + 1,
                           !.sentUpd = @ \/ tk.stage = "command",
                           !.alone = TRUE,
                           !.reused = i \in idpLog[c].used]
           ELSE Raise([tk EXCEPT !.idp = i], "ValueError"),
         "next")

\* _execute_command_with_retry, lines 349-356: one inner iteration up to the
\* first poll of _wait_for_response.
BeginExchange(tk, c) ==
  Effect(IF CanSend(c)
           THEN [tk EXCEPT !.pc = "wait", !.idp = idpCounter[c],
                           !.got_ack = FALSE, !.ack_received_time = NoTime,
                           !.elapsed = 0, !.skipped = FALSE,
                           !.exit = "none", !.exitAck = FALSE, !.exitLate = FALSE,
                           !.nExecCmd = @ + 1,
                           !.sentUpd = @ \/ tk.stage = "command",
                           !.alone = TRUE,
                           !.reused = idpCounter[c] \in idpLog[c].used]
           ELSE Raise([tk EXCEPT !.idp = idpCounter[c]], "ValueError"),
         "next")

\* _execute_command_with_retry, lines 336-345: entry, first attempt.
ExecuteCommandWithRetry(tk, c) ==
  BeginExchange([tk EXCEPT !.attempt = 1, !.idp_sync_attempt = 0,
                           !.nRuns = @ + 1,
                           !.nExecCmd = 0, !.nFail = 0, !.nReset = 0], c)

\* Mutant of MaxAttempts: one outer attempt too many.
MaxAttemptsOneMore(tk) == IF tk.op.retry THEN RetryAttempts + 1 ELSE 1

\* max_attempts, line 336
MaxAttempts(tk) == IF tk.op.retry THEN RetryAttempts ELSE 1

\* The operating modes a status payload reports, by the lists they are on:
\* "fan" for the modes of MODULAR_FAN_SPEED_PRESET_MODES, "hum" for those of
\* HUMIDITY_SELECTOR_PRESET_MODES, "oth" for a mode on neither list.
DeviceModes == {"fan", "hum", "oth"}

\* PicoDeviceModel.from_dict: DeviceModeEnum(mod) raises on an unknown mode.
Parses(m) == m.mod # "bad"

\* Mutant of ModeAllows: set_target_humidity is checked against the list of
\* the fan speed modes.
ModeAllowsHumidityWrongList(op, mod) ==
  CASE op.kind = "change_fan_speed" -> mod = "fan" \/ op.full
    [] op.kind = "set_night_mode" -> mod = "fan"
    [] op.kind = "set_target_humidity" -> mod = "fan"
    [] OTHER -> TRUE

\* Mutant of ModeAllows: set_night_mode is checked against both lists.
ModeAllowsNightBothLists(op, mod) ==
  CASE op.kind = "change_fan_speed" -> mod = "fan" \/ op.full
    [] op.kind = "set_night_mode" -> mod \in {"fan", "hum"}
    [] op.kind = "set_target_humidity" -> mod = "hum"
    [] OTHER -> TRUE

\* The mode checks of change_fan_speed, set_night_mode, set_target_humidity.
ModeAllows(op, mod) ==
  CASE op.kind = "change_fan_speed" -> mod = "fan" \/ op.full
    [] op.kind = "set_night_mode" -> mod = "fan"
    [] op.kind = "set_target_humidity" -> mod = "hum"
    [] OTHER -> TRUE

Gated(op) == op.kind \in {"change_fan_speed", "set_night_mode", "set_target_humidity"}

\* Mutant of AfterExecute: the gated operations send their command first and
\* check the operating mode afterwards.
AfterExecuteCheckAfter(tk, c, m) ==
  IF tk.stage = "status"
    THEN IF m = NoMsg THEN Effect(Raise(tk, "TimeoutError"), "keep")
         ELSE IF ~Parses(m) THEN Effect(Raise(tk, "PicoDeviceError"), "keep")
         ELSE IF tk.op.kind = "get_status" THEN Effect(Return(tk), "keep")
         ELSE ExecuteCommandWithRetry([tk EXCEPT !.stage = "command"], c)
    ELSE IF m = NoMsg THEN Effect(Raise(tk, "AttributeError"), "keep")
         ELSE IF Gated(tk.op) /\ ~tk.op.force /\ ~ModeAllows(tk.op, m.mod)
           THEN Effect(Raise(tk, "NotSupportedError"), "keep")
         ELSE Effect(Return(tk), "keep")

\* The public operation after _execute_command_with_retry returned m
\* (NoMsg for None): get_status lines 172-178, the gated operations after
\* their status query, and CommandResponseModel.from_dict(result).
AfterExecute(tk, c, m) ==
  IF tk.stage = "status"
    THEN IF m = NoMsg THEN Effect(Raise(tk, "TimeoutError"), "keep")
         ELSE IF ~Parses(m) THEN Effect(Raise(tk, "PicoDeviceError"), "keep")
         ELSE IF tk.op.kind = "get_status" THEN Effect(Return(tk), "keep")
         ELSE IF ~ModeAllows(tk.op, m.mod)
           THEN Effect(Raise(tk, "NotSupportedError"), "keep")
         ELSE ExecuteCommandWithRetry([tk EXCEPT !.stage = "command"], c)
    ELSE IF m = NoMsg THEN Effect(Raise(tk, "AttributeError"), "keep")
         ELSE Effect(Return(tk), "keep")

\* Mutant of ExchangeFailed: the retry delay is also slept between the
\* inner iterations.
ExchangeFailedDelayInner(tk, c, why) ==
  LET f == [tk EXCEPT !.nFail = @ + 1, !.exit = why, !.exitAck = tk.got_ack,
                      !.exitLate = tk.got_ack /\
                         tk.elapsed > tk.ack_received_time + AckTimeout] IN
  IF f.idp_sync_attempt + 1 < MaxIdpSync
    THEN Effect([f EXCEPT !.idp_sync_attempt = @ + 1,
                          !.pc = "sleep", !.sleepLeft = RetryDelay],
                "keep")
    ELSE IF f.attempt < MaxAttempts(f)
      THEN Effect([f EXCEPT !.attempt = @ + 1, !.idp_sync_attempt = 0,
                            !.nReset = @ + 1,
                            !.pc = "sleep", !.sleepLeft = RetryDelay],
                  "reset")
      ELSE AfterExecute(f, c, NoMsg)

\* Mutant of ExchangeFailed: the counter is left where it is between two
\* outer attempts.
ExchangeFailedNoReset(tk, c, why) ==
  LET f == [tk EXCEPT !.nFail = @ + 1, !.exit = why, !.exitAck = tk.got_ack,
                      !.exitLate = tk.got_ack /\
                         tk.elapsed > tk.ack_received_time + AckTimeout] IN
  IF f.idp_sync_attempt + 1 < MaxIdpSync
    THEN BeginExchange([f EXCEPT !.idp_sync_attempt = @ + 1], c)
    ELSE IF f.attempt < MaxAttempts(f)
      THEN Effect([f EXCEPT !.attempt = @ + 1, !.idp_sync_attempt = 0,
                            !.nReset = @ + 1,
                            !.pc = "sleep", !.sleepLeft = RetryDelay],
                  "keep")
      ELSE AfterExecute(f, c, NoMsg)

\* _wait_for_response returned None: lines 358-373.
ExchangeFailed(tk, c, why) ==
  LET f == [tk EXCEPT !.nFail = @ + 1, !.exit = why, !.exitAck = tk.got_ack,
                      !.exitLate = tk.got_ack /\
                         tk.elapsed > tk.ack_received_time + AckTimeout] IN
  IF f.idp_sync_attempt + 1 < MaxIdpSync
    THEN BeginExchange([f EXCEPT !.idp_sync_attempt = @ + 1], c)
    ELSE IF f.attempt < MaxAttempts(f)
      THEN Effect([f EXCEPT !.attempt = @ + 1, !.idp_sync_attempt = 0,
                            !.nReset = @ + 1,
                            !.pc = "sleep", !.sleepLeft = RetryDelay],
                  "reset")
      ELSE AfterExecute(f, c, NoMsg)

\* Mutant of ExchangeSucceeded: the response is returned without the closing
\* ACK.
ExchangeSucceededNoAck(tk, c, m) ==
  AfterExecute([tk EXCEPT !.nOk = @ + 1, !.okIdp = tk.idp,
                          !.exit = "payload"], c, m)

\* _wait_for_response, lines 412-414 and 358-361: the closing ACK, then the
\* response goes back to the public operation.
ExchangeSucceeded(tk, c, m) ==
  IF CanSend(c)
    THEN AfterExecute([tk EXCEPT !.nAck = @ + 1, !.ackIdp = tk.idp,
                                 !.nOk = @ + 1, !.okIdp = tk.idp,
                                 !.exit = "payload"], c, m)
    ELSE Effect(Raise(tk, "ValueError"), "keep")

\* Mutant of Classify: the sender of a res 99 frame is not looked at.
ClassifyAckAnyRole(tk, c, m) ==
  IF m.idp # tk.idp THEN Effect([tk EXCEPT !.skipped = TRUE], "keep")
  ELSE IF m.res = AckRes
    THEN Effect([tk EXCEPT !.got_ack = TRUE, !.ack_received_time = tk.elapsed], "keep")
  ELSE ExchangeSucceeded(tk, c, m)

\* Mutant of Classify: the idp of the message is not compared with the idp
\* of the request.
ClassifyAnyIdp(tk, c, m) ==
  IF m.res = AckRes /\ m.frm = "mst"
    THEN Effect([tk EXCEPT !.got_ack = TRUE, !.ack_received_time = tk.elapsed], "keep")
  ELSE IF m.res # AckRes THEN ExchangeSucceeded(tk, c, m)
  ELSE Effect(tk, "keep")

\* _wait_for_response, lines 399-414: one message taken from the queue.
Classify(tk, c, m) ==
  IF m.idp # tk.idp THEN Effect([tk EXCEPT !.skipped = TRUE], "keep")
  ELSE IF m.res = AckRes /\ m.frm = "mst"
    THEN Effect([tk EXCEPT !.got_ack = TRUE, !.ack_received_time = tk.elapsed], "keep")
  ELSE IF m.res # AckRes THEN ExchangeSucceeded(tk, c, m)
  ELSE Effect(tk, "keep")

\* _wait_for_response, lines 382-391: the checks at the top of the loop.
DeadlinePassed(tk) == tk.elapsed >= ResponseTimeout
AckExpired(tk) ==
  tk.got_ack /\ tk.ack_received_time # NoTime
  /\ tk.elapsed - tk.ack_received_time > AckTimeout

\* The effect of a step of task t on the task and on its client's counter.
Apply(t, e) ==
  LET c == ClientOf(t) IN
  /\ task' = [u \in Tasks |->
       IF u = t THEN e.tk
       ELSE IF ClientOf(u) = c /\ e.eff \in {"next", "reset"}
         THEN [task[u] EXCEPT !.alone = FALSE]
         ELSE task[u]]
  /\ idpCounter' = [idpCounter EXCEPT ![c] =
       CASE e.eff = "next" -> NextCounter(c)
         [] e.eff = "reset" -> idpRangeStart[c]
         [] OTHER -> @]
  /\ idpLog' = [idpLog EXCEPT ![c] =
       CASE e.eff = "next" -> LogCall(c)
         [] e.eff = "reset" -> LogReset(c)
         [] OTHER -> @]

\* Mutant of StartOp: the gated operations query the status with force too.
StartOpForceIgnored(t, o) ==
  LET c == ClientOf(t)
      tk == [IdleTask EXCEPT !.op = o] IN
  /\ task[t].pc = "idle"
  /\ IF ~connected[c]
       THEN Apply(t, Effect(Raise(tk, "ConnectionError"), "keep"))
       ELSE Apply(t, ExecuteCommandWithRetry(
              [tk EXCEPT !.stage = IF o.kind = "get_status" \/ Gated(o)
                                     THEN "status" ELSE "command"], c))
  /\ UNCHANGED <<mgrVars, connected, idpRangeStart, idpRangeSize, queue, lastRoute>>
  /\ UNCHANGED <<wrap, rx, boot>>

\* A public operation is called: the connected check, then either the status
\* query (get_status, or a gated operation without force) or the command.
StartOp(t, o) ==
  LET c == ClientOf(t)
      tk == [IdleTask EXCEPT !.op = o] IN
  /\ task[t].pc = "idle"
  /\ IF ~connected[c]
       THEN Apply(t, Effect(Raise(tk, "ConnectionError"), "keep"))
       ELSE Apply(t, ExecuteCommandWithRetry(
              [tk EXCEPT !.stage = IF o.kind = "get_status" \/ (Gated(o) /\ ~o.force)
                                     THEN "status" ELSE "command"], c))
  /\ UNCHANGED <<mgrVars, connected, idpRangeStart, idpRangeSize, queue, lastRoute>>
  /\ UNCHANGED <<wrap, rx, boot>>

\* One turn of the loop of _wait_for_response. With the queue empty and no
\* deadline passed the task stays suspended in queue.get().
WaitStep(t) ==
  LET c == ClientOf(t)
      tk == task[t] IN
  /\ tk.pc = "wait"
  /\ IF DeadlinePassed(tk)
       THEN Apply(t, ExchangeFailed(tk, c, "deadline")) /\ UNCHANGED queue
       ELSE IF AckExpired(tk)
         THEN Apply(t, ExchangeFailed(tk, c, "ack_timeout")) /\ UNCHANGED queue
         ELSE /\ queue[c] # <<>>
              /\ queue' = [queue EXCEPT ![c] = Tail(@)]
              /\ Apply(t, Classify(tk, c, Head(queue[c])))
  /\ UNCHANGED <<mgrVars, connected, idpRangeStart, idpRangeSize, lastRoute>>
  /\ UNCHANGED <<wrap, rx, boot>>

\* asyncio.sleep(retry_delay) is over: the next outer attempt starts.
WakeUp(t) ==
  /\ task[t].pc = "sleep"
  /\ task[t].sleepLeft = 0
  /\ Apply(t, BeginExchange(task[t], ClientOf(t)))
  /\ UNCHANGED <<mgrVars, connected, idpRangeStart, idpRangeSize, queue, lastRoute>>
  /\ UNCHANGED <<wrap, rx, boot>>

\* The caller takes the operation's result or exception.
Finish(t) ==
  /\ task[t].pc = "done"
  /\ task' = [task EXCEPT ![t] = IdleTask]
  /\ UNCHANGED <<mgrVars, sessVars, queue, lastRoute>>
  /\ UNCHANGED <<wrap, rx, boot>>

\* A task that runs as soon as the event loop gets to it.
Urgent(tk) ==
  \/ tk.pc = "wait" /\ (DeadlinePassed(tk) \/ AckExpired(tk))
  \/ tk.pc = "sleep" /\ tk.sleepLeft = 0

\* Half a second passes.
Tick ==
  /\ \E t \in Tasks : task[t].pc \in {"wait", "sleep"}
  /\ \A t \in Tasks : ~Urgent(task[t])
  /\ task' = [t \in Tasks |->
       CASE task[t].pc = "wait" -> [task[t] EXCEPT !.elapsed = @ + 1]
         [] task[t].pc = "sleep" -> [task[t] EXCEPT !.sleepLeft = @ - 1]
         [] OTHER -> task[t]]
  /\ UNCHANGED <<mgrVars, sessVars, queue, lastRoute>>
  /\ UNCHANGED <<wrap, rx, boot>>

\* --------------------------------------------------- reconnect wrapper
\* What one invocation of the wrapped operation, or of connect(), ends with:
\* "ok", or the class of the exception raised. ConnectionError, OSError and
\* TimeoutError are the Python built-ins (no module of the repository is
\* imported by auto_reconnect.py or for them by pico_client.py).
Outcomes ==
  {"ok", "ConnectionError", "OSError", "TimeoutError", "NotSupportedError", "ValueError"}

\* Whether PicoDeviceError, the base class of NotSupportedError, is an
\* OSError: it is an application-level error class, so it is not.
PicoDeviceErrorIsOSError == FALSE

\* Mutant of IsConnectionFailure: every exception is taken for a connection
\* failure.
IsConnectionFailureAny(e) == e # "ok"

\* except (ConnectionError, OSError, socket.error), line 32: socket.error is
\* OSError; ConnectionError and TimeoutError are subclasses of OSError.
IsConnectionFailure(e) ==
  \/ e \in {"ConnectionError", "OSError", "TimeoutError"}
  \/ e = "NotSupportedError" /\ PicoDeviceErrorIsOSError

\* The state of a call through the wrapper. attempt is the loop variable;
\* connected is self._connected; nInvoke, nTeardown and nRebind count the
\* invocations of the wrapped operation, the disconnect() calls and the
\* connect() calls of the reconnection path; lastOutcome is what the last
\* invocation ended with, lastErr the last exception the wrapper caught;
\* result is "value", "None" or "raise", raised the class of the exception
\* that left the wrapper, wrapped whether the wrapper built it itself, and
\* embeds the class of the error named in its message.
IdleWrap ==
  [pc |-> "idle", enabled |-> FALSE, max |-> 0, attempt |-> 0,
   connected |-> FALSE, nInvoke |-> 0, nTeardown |-> 0, nRebind |-> 0,
   lastOutcome |-> "none", lastErr |-> "none",
   result |-> "none", raised |-> "none", wrapped |-> FALSE, embeds |-> "none"]

\* return func(self, *args, **kwargs), lines 18 and 30
WrapReturn(w) == [w EXCEPT !.pc = "done", !.result = "value"]

\* return None, line 68
WrapReturnNone(w) == [w EXCEPT !.pc = "done", !.result = "None"]

\* An exception of the wrapped operation leaves the wrapper, line 66.
WrapPropagate(w, e) ==
  [w EXCEPT !.pc = "done", !.result = "raise", !.raised = e, !.wrapped = FALSE]

\* raise ConnectionError(f"... Last error: {e}"), lines 56-58 and 60-62
WrapRaise(w, e) ==
  [w EXCEPT !.pc = "done", !.result = "raise", !.raised = "ConnectionError",
            !.wrapped = TRUE, !.embeds = e]

\* for attempt in range(max_attempts): the next iteration, or the end of
\* the loop.
WrapNext(w) ==
  IF w.attempt + 1 < w.max THEN [w EXCEPT !.attempt = @ + 1] ELSE WrapReturnNone(w)

\* Mutant of MoreAttempts: the comparison is off by one.
MoreAttemptsOffByOne(w) == w.attempt < w.max

\* attempt < max_attempts - 1, line 33
MoreAttempts(w) == w.attempt < w.max - 1

\* The handler of a connection failure e, lines 33-62. discOk: disconnect()
\* got to clear the flag before any exception it raised was swallowed;
\* reconnOk: connect() succeeded.
OnConnectionFailure(w, e, discOk, reconnOk) ==
  LET w1 == [w EXCEPT !.lastErr = e] IN
  IF MoreAttempts(w1)
    THEN LET w2 == [w1 EXCEPT !.nTeardown = @ + 1, !.nRebind = @ + 1,
                              !.connected = IF discOk THEN FALSE ELSE @] IN
         IF w2.connected \/ reconnOk
           THEN WrapNext([w2 EXCEPT !.connected = TRUE])
           ELSE IF w2.attempt = w2.max - 2
             THEN WrapRaise([w2 EXCEPT !.lastErr = "ConnectionError"], "ConnectionError")
             ELSE WrapNext([w2 EXCEPT !.lastErr = "ConnectionError"])
    ELSE WrapRaise(w1, e)

\* Mutant of WrapperCall: the auto-reconnect flag is not looked at.
WrapperCallFlagIgnored(en, mx, conn, o) ==
  /\ wrap.pc = "idle"
  /\ wrap' =
       LET w == [IdleWrap EXCEPT !.enabled = en, !.max = mx, !.connected = conn] IN
       IF mx > 0 THEN [w EXCEPT !.pc = "try"] ELSE WrapReturnNone(w)
  /\ UNCHANGED <<mgrVars, sessVars, queue, lastRoute, task, rx, boot>>

\* An operation is called through the wrapper, lines 15-22. en is
\* self._auto_reconnect, mx self._max_reconnect_attempts, conn
\* self._connected, o the outcome of the operation when it runs unwrapped.
WrapperCall(en, mx, conn, o) ==
  /\ wrap.pc = "idle"
  /\ wrap' =
       LET w == [IdleWrap EXCEPT !.enabled = en, !.max = mx, !.connected = conn] IN
       IF ~en
         THEN LET w1 == [w EXCEPT !.nInvoke = 1, !.lastOutcome = o] IN
              IF o = "ok" THEN WrapReturn(w1) ELSE WrapPropagate(w1, o)
         ELSE IF mx > 0 THEN [w EXCEPT !.pc = "try"] ELSE WrapReturnNone(w)
  /\ UNCHANGED <<mgrVars, sessVars, queue, lastRoute, task, rx, boot>>

\* One iteration of the loop, lines 23-66. connOk: the connect() of line 28
\* succeeds; o: what the wrapped operation ends with.
WrapperAttempt(connOk, o, discOk, reconnOk) ==
  /\ wrap.pc = "try"
  /\ wrap' =
       IF ~wrap.connected /\ ~connOk
         THEN OnConnectionFailure(wrap, "ConnectionError", discOk, reconnOk)
         ELSE LET w == [wrap EXCEPT !.connected = TRUE, !.nInvoke = @ + 1,
                                    !.lastOutcome = o] IN
              IF o = "ok" THEN WrapReturn(w)
              ELSE IF IsConnectionFailure(o)
                THEN OnConnectionFailure(w, o, discOk, reconnOk)
              ELSE WrapPropagate(w, o)
  /\ UNCHANGED <<mgrVars, sessVars, queue, lastRoute, task, rx, boot>>

\* The caller takes the result or the exception of the wrapper.
WrapperDone ==
  /\ wrap.pc = "done"
  /\ wrap' = IdleWrap
  /\ UNCHANGED <<mgrVars, sessVars, queue, lastRoute, task, rx, boot>>

\* ---------------------------------------------------------------- init
Init ==
  /\ initialized = FALSE
  /\ devices = [d \in DeviceIds |-> NoReg]
  /\ nextIdpRange = FirstIdpRange
  /\ connected = [c \in Clients |-> FALSE]
  /\ idpRangeStart = [c \in Clients |-> 1]
  /\ idpRangeSize = [c \in Clients |-> IdpRangeSize]
  /\ idpCounter = [c \in Clients |-> 1]
  /\ queue = [c \in Clients |-> <<>>]
  /\ allocLog = <<>>
  /\ lastRoute = "none"
  /\ idpLog = [c \in Clients |-> NoLog]
  /\ task = [t \in Tasks |-> IdleTask]
  /\ wrap = IdleWrap
  /\ rx = NoRx
  /\ boot = NoBoot

\* ------------------------------------------------------ specifications
\* The registry and the sessions: every client connects, disconnects, draws
\* and resets sequence numbers in any order, while datagrams come in.
\* The datagrams carry the first idp of each range that can be allocated, the
\* idp below the first range and the idp above the last one, or no idp.
RegIdps == {FirstIdpRange - 1} \cup {FirstIdpRange + k * IdpRangeSize : k \in 0 .. MaxAlloc}
RegMsgs == {[idp |-> i, res |-> 1, frm |-> "mst", mod |-> "fan"] : i \in RegIdps \cup {NoIdp}}

NextReg ==
  \/ \E c \in Clients, b \in BOOLEAN : Connect(c, b)
  \/ \E c \in Clients : Disconnect(c)
  \/ \E m \in RegMsgs : DatagramReceived(m)

SpecReg == Init /\ [][NextReg]_vars

\* The sessions' counters: two client instances of device d1 connect,
\* disconnect, draw and reset sequence numbers in any order.
SessClients == {"c1", "c3"}

NextSess ==
  \/ \E c \in SessClients, b \in BOOLEAN : Connect(c, b)
  \/ \E c \in SessClients : Disconnect(c)
  \/ \E c \in SessClients : GetNextIdp(c)
  \/ \E c \in SessClients : ResetIdp(c)

SpecSess == Init /\ [][NextSess]_vars

\* The frames the device may send: for each idp its ACK, and a payload
\* reporting each of the given operating modes.
Frames(idps, mods) ==
  {[idp |-> i, res |-> AckRes, frm |-> "mst", mod |-> ""] : i \in idps}
  \cup {[idp |-> i, res |-> 1, frm |-> "mst", mod |-> md] : i \in idps, md \in mods}

\* The frames of the device that are not ACKs.
Payloads(idps, mods) == {m \in Frames(idps, mods) : m.res # AckRes}

\* The idps of the range the first registration gets.
EngineIdps == FirstIdpRange .. (FirstIdpRange + IdpRangeSize - 1)

Op(kind, force, retry, full) ==
  [kind |-> kind, force |-> force, retry |-> retry, full |-> full]

\* The exchange engine: one caller runs status queries and a plain command
\* on client c1, one after the other, while the device acknowledges and
\* answers any idp of the range, in any order, or stays silent.
EngineOps ==
  {Op("get_status", FALSE, r, FALSE) : r \in BOOLEAN}
  \cup {Op("set_on_off", FALSE, TRUE, FALSE)}

Next ==
  \/ \E b \in BOOLEAN : Connect("c1", b)
  \/ \E o \in EngineOps : StartOp("t1", o)
  \/ WaitStep("t1")
  \/ WakeUp("t1")
  \/ Finish("t1")
  \/ Tick
  \/ \E m \in Frames(EngineIdps, {"fan"}) : DatagramReceived(m)

Spec == Init /\ [][Next]_vars

\* Termination: a plain command and a gated command, with time passing and
\* the event loop running every coroutine that is ready. The caller and the
\* device are under no obligation.
FairOps ==
  {Op("set_on_off", FALSE, TRUE, FALSE), Op("set_night_mode", FALSE, TRUE, FALSE)}

NextFair ==
  \/ \E b \in BOOLEAN : Connect("c1", b)
  \/ \E o \in FairOps : StartOp("t1", o)
  \/ WaitStep("t1")
  \/ WakeUp("t1")
  \/ Finish("t1")
  \/ Tick
  \/ \E m \in Frames({task["t1"].idp}, {"fan"}) : DatagramReceived(m)

FairSpec ==
  /\ Init /\ [][NextFair]_vars
  /\ WF_vars(Tick)
  /\ WF_vars(WaitStep("t1"))
  /\ WF_vars(WakeUp("t1"))

\* Every public operation, against a device that answers the request in
\* flight, reporting any operating mode, or stays silent.
AllOps ==
  {Op(k, FALSE, TRUE, FALSE) :
     k \in {"get_status", "set_on_off", "change_operating_mode", "set_led_status"}}
  \cup {Op(k, f, TRUE, FALSE) :
     k \in {"change_fan_speed", "set_night_mode", "set_target_humidity"}, f \in BOOLEAN}
  \cup {Op("change_fan_speed", FALSE, TRUE, TRUE)}

NextOps ==
  \/ \E b \in BOOLEAN : Connect("c1", b)
  \/ \E o \in AllOps : StartOp("t1", o)
  \/ WaitStep("t1")
  \/ WakeUp("t1")
  \/ Finish("t1")
  \/ Tick
  \/ \E m \in Payloads({task["t1"].idp}, DeviceModes) : DatagramReceived(m)

SpecOps == Init /\ [][NextOps]_vars

\* Two callers on one session: both run status queries without the outer
\* retry on client c1 at the same time, while the device sends the payload
\* for the idp of any exchange in flight or stays silent.
ConcOps == {Op("get_status", FALSE, FALSE, FALSE)}

NextConc ==
  \/ \E b \in BOOLEAN : Connect("c1", b)
  \/ \E t \in Tasks, o \in ConcOps : StartOp(t, o)
  \/ \E t \in Tasks : WaitStep(t)
  \/ \E t \in Tasks : Finish(t)
  \/ Tick
  \/ \E m \in Payloads({task[t].idp : t \in {u \in Tasks : task[u].pc = "wait"}}, {"fan"}) :
       DatagramReceived(m)

SpecConc == Init /\ [][NextConc]_vars

\* Unregistration in flight: one caller runs status queries on client c1
\* while the client is disconnected and connected again at any moment, and
\* the device answers any idp of the first range or stays silent.
UnregOps == {Op("get_status", FALSE, r, FALSE) : r \in BOOLEAN}

NextUnreg ==
  \/ \E b \in BOOLEAN : Connect("c1", b)
  \/ Disconnect("c1")
  \/ \E o \in UnregOps : StartOp("t1", o)
  \/ WaitStep("t1")
  \/ WakeUp("t1")
  \/ Finish("t1")
  \/ Tick
  \/ \E m \in Payloads(EngineIdps, {"fan"}) : DatagramReceived(m)

SpecUnreg == Init /\ [][NextUnreg]_vars

\* Classification: one caller runs status queries and a plain command on
\* client c1 while frames come for the idp of the last request with res 99,
\* another res or no res field, sent by the device ("mst") or by an app.
ClassFrames(idps) ==
  {[idp |-> i, res |-> r, frm |-> f, mod |-> "fan"] :
     i \in idps, r \in {AckRes, 1, NoRes}, f \in {"mst", "app"}}

ClassOps == {Op("get_status", FALSE, FALSE, FALSE), Op("set_on_off", FALSE, FALSE, FALSE)}

NextClass ==
  \/ Connect("c1", TRUE)
  \/ \E o \in ClassOps : StartOp("t1", o)
  \/ WaitStep("t1")
  \/ Finish("t1")
  \/ Tick
  \/ \E m \in ClassFrames({task["t1"].idp}) : DatagramReceived(m)

SpecClass == Init /\ [][NextClass]_vars

\* Late replies: one caller runs status queries with the outer retry on
\* client c1. The device answers the request in flight (re: the number of
\* the exchange the frame answers), and an answer to an earlier request
\* that carried the same idp comes late (re 0), after the exchange it
\* answers is over.
ReplyTo(i, n) == [idp |-> i, res |-> 1, frm |-> "mst", mod |-> "fan", re |-> n]

RepliesInTime ==
  IF task["t1"].pc = "wait" THEN {ReplyTo(task["t1"].idp, task["t1"].nExecCmd)} ELSE {}

LateReplies ==
  {ReplyTo(i, 0) : i \in {j \in idpLog["c1"].used :
                            (task["t1"].pc = "wait" /\ task["t1"].idp = j) => task["t1"].reused}}

NextLate ==
  \/ Connect("c1", TRUE)
  \/ StartOp("t1", Op("get_status", FALSE, TRUE, FALSE))
  \/ WaitStep("t1")
  \/ WakeUp("t1")
  \/ Finish("t1")
  \/ Tick
  \/ \E m \in RepliesInTime \cup LateReplies : DatagramReceived(m)

SpecLate == Init /\ [][NextLate]_vars

\* The protocol: clients c1 and c2 are connected, c1 runs status queries
\* whose exchanges stay within their timeout, and the socket hands over
\* datagrams of every kind, with or without a callback registered for
\* their cmd, the callback failing or not.
ProtoIdps == {NoIdp, FirstIdpRange, FirstIdpRange + IdpRangeSize}

RawDatagrams ==
  {Raw(k, NoRx.msg) : k \in RawKinds \ {"object"}}
  \cup {Raw("object", [idp |-> i, res |-> 1, frm |-> "mst", mod |-> "fan"]) : i \in ProtoIdps}

NextProto ==
  \/ \E c \in {"c1", "c2"} : Connect(c, TRUE)
  \/ StartOp("t1", Op("get_status", FALSE, FALSE, FALSE))
  \/ WaitStep("t1")
  \/ Finish("t1")
  \/ \E raw \in RawDatagrams, hasCb, cbFails \in BOOLEAN : DatagramBytes(raw, hasCb, cbFails)
  \/ RunCallback

SpecProto == Init /\ [][NextProto]_vars

\* Sender addresses: clients c1 and c2 are connected to two devices and c1
\* runs status queries. The socket receives acknowledgements and answers
\* carrying the idp of the exchange in flight from the device of c1, from
\* the device of c2 and from a host that is no device of any client; addr
\* is the second argument of datagram_received.
RemoteAddr(c) == IF DeviceIdOf(c) = "d2" THEN "addr_d2" ELSE "addr_d1"

Hosts == {RemoteAddr(c) : c \in Clients} \cup {"addr_other"}

AddrFrames(idps) ==
  {[idp |-> i, res |-> r, frm |-> "mst", mod |-> "fan", addr |-> a] :
     i \in idps, r \in {AckRes, 1}, a \in Hosts}

NextAddr ==
  \/ \E c \in {"c1", "c2"} : Connect(c, TRUE)
  \/ StartOp("t1", Op("get_status", FALSE, FALSE, FALSE))
  \/ WaitStep("t1")
  \/ Finish("t1")
  \/ Tick
  \/ \E m \in AddrFrames({task["t1"].idp}) : DatagramReceived(m)

SpecAddr == Init /\ [][NextAddr]_vars

\* Start-up: every client calls connect() and disconnect() in any order,
\* the calls of connect() overlapping in any way, and the bind succeeds or
\* fails.
NextBoot ==
  \/ \E c \in Clients : ConnectBegin(c)
  \/ \E c \in Clients : LockAcquired(c)
  \/ \E c \in Clients, b \in BOOLEAN : BindDone(c, b)
  \/ \E c \in Clients : Disconnect(c)

SpecBoot == Init /\ [][NextBoot]_vars

\* The reconnect wrapper: operations are called through it with the
\* auto-reconnect flag set or not and any attempt limit from 1 on, and the
\* operation, connect() and disconnect() succeed or fail in any way.
NextWrap ==
  \/ \E en, conn \in BOOLEAN, mx \in 1 .. MaxReconnect, o \in Outcomes :
       WrapperCall(en, mx, conn, o)
  \/ \E connOk, discOk, reconnOk \in BOOLEAN, o \in Outcomes :
       WrapperAttempt(connOk, o, discOk, reconnOk)
  \/ WrapperDone

SpecWrap == Init /\ [][NextWrap]_vars

\* ---------------------------------------------------------------- claims
\* C1: the ranges of the registered sessions are pairwise disjoint, and each
\* allocated range starts where the one allocated before it ended.
C1_RangesDisjointContiguous ==
  /\ \A d, e \in DeviceIds :
       (d # e /\ Registered(d) /\ Registered(e)) =>
         \/ devices[d].start + devices[d].size <= devices[e].start
         \/ devices[e].start + devices[e].size <= devices[d].start
  /\ \A k \in 1 .. Len(allocLog) - 1 :
       allocLog[k + 1].start = allocLog[k].start + allocLog[k].size
  /\ \A d \in DeviceIds :
       Registered(d) =>
         \E k \in 1 .. Len(allocLog) :
           /\ allocLog[k].id = d
           /\ allocLog[k].start = devices[d].start
           /\ allocLog[k].size = devices[d].size

\* Both devices registered, after as many allocations as the run allows.
C1_Witness ==
  /\ \A d \in DeviceIds : Registered(d)
  /\ Len(allocLog) = MaxAlloc

\* The registrations whose range holds idp.
Claimants(idp) ==
  {d \in DeviceIds : /\ Registered(d)
                     /\ devices[d].start <= idp
                     /\ idp < devices[d].start + devices[d].size}

\* C2: a datagram whose idp lies in the range of exactly one registered
\* session is appended to that session's inbox and to no other; one whose idp
\* lies in no registered range changes no inbox.
C2_RouteInbound ==
  [][\A m \in RegMsgs :
       DatagramReceived(m) =>
         /\ (m.idp # NoIdp /\ Cardinality(Claimants(m.idp)) = 1) =>
              LET d == CHOOSE x \in Claimants(m.idp) : TRUE IN
              /\ queue' = [queue EXCEPT ![devices[d].owner] = Append(@, m)]
              /\ lastRoute' = "delivered"
         /\ (m.idp = NoIdp \/ Claimants(m.idp) = {}) =>
              /\ queue' = queue
              /\ lastRoute' \in {"no_idp", "no_device"}]_vars

\* A datagram was delivered and a later one, outside every range, dropped.
C2_Witness ==
  /\ lastRoute = "no_device"
  /\ \E c \in Clients : queue[c] # <<>>
  /\ \E d \in DeviceIds : Registered(d)

\* C3: since its connect, the k-th call of _get_next_idp returned
\* start + (k - 1) for k <= size, and start again at call size + 1.
C3_NextIdpSequence ==
  \A c \in Clients :
    (idpLog[c].fresh /\ idpLog[c].n >= 1) =>
      idpLog[c].last = idpRangeStart[c] + ((idpLog[c].n - 1) % idpRangeSize[c])

\* Call size + 1 after a connect returned the start of the range.
C3_Witness ==
  \E c \in Clients :
    /\ idpLog[c].fresh
    /\ idpLog[c].n = idpRangeSize[c] + 1
    /\ idpLog[c].last = idpRangeStart[c]

\* C4: the counter of every session lies in the range assigned to it.
C4_CounterInRange ==
  \A c \in Clients :
    /\ idpRangeStart[c] <= idpCounter[c]
    /\ idpCounter[c] < idpRangeStart[c] + idpRangeSize[c]

\* A client that reconnected into a later range, its counter on the last
\* value of that range.
C4_Witness ==
  \E c \in Clients :
    /\ connected[c]
    /\ idpRangeStart[c] > FirstIdpRange
    /\ idpCounter[c] = idpRangeStart[c] + idpRangeSize[c] - 1

\* The waiting exchange of task t takes the message at the head of its
\* queue in this step.
Takes(t) ==
  LET c == ClientOf(t) IN
  /\ task[t].pc = "wait"
  /\ ~DeadlinePassed(task[t])
  /\ ~AckExpired(task[t])
  /\ queue[c] # <<>>
  /\ queue'[c] = Tail(queue[c])

\* The message taken is the payload of the request in flight.
TakesPayload(t) ==
  /\ Takes(t)
  /\ Head(queue[ClientOf(t)]).idp = task[t].idp
  /\ Head(queue[ClientOf(t)]).res # AckRes

\* The exchange task t was waiting in is over after this step.
ExchangeEnds(t) ==
  /\ task[t].pc = "wait"
  /\ \/ task'[t].pc # "wait"
     \/ task'[t].nExecCmd # task[t].nExecCmd
     \/ task'[t].nRuns # task[t].nRuns

\* C5: an exchange returns success exactly in the step that takes the payload
\* of its request, that step transmits one closing ACK with the idp of the
\* request, and no other step of an operation transmits a closing ACK; an
\* operation that returned normally has transmitted at least one.
C5_ClosingAck ==
  /\ [][\A t \in Tasks :
          task[t].pc \in {"wait", "sleep"} =>
            /\ (task'[t].nOk = task[t].nOk + 1) <=> (TakesPayload(t) /\ CanSend(ClientOf(t)))
            /\ task'[t].nOk \in {task[t].nOk, task[t].nOk + 1}
            /\ task'[t].nOk = task[t].nOk + 1 =>
                 /\ task'[t].nAck = task[t].nAck + 1
                 /\ task'[t].ackIdp = task[t].idp
            /\ task'[t].nOk = task[t].nOk => task'[t].nAck = task[t].nAck]_vars
  /\ [](\A t \in Tasks :
          (task[t].pc = "done" /\ task[t].result = "ok") =>
            (task[t].nAck >= 1 /\ task[t].ackIdp = task[t].idp))

\* An operation that returned its response after exchanges that failed: one
\* closing ACK was sent, with the idp of the exchange that succeeded.
C5_Witness ==
  \E t \in Tasks :
    /\ task[t].pc = "done"
    /\ task[t].result = "ok"
    /\ task[t].nFail > 0
    /\ task[t].nAck = 1
    /\ task[t].ackIdp = task[t].idp

\* C6 as claimed: an exchange that got the ACK of its request and ended
\* without the payload ended at the ACK follow-up check, and not later than
\* ack_timeout after the ACK.
C6_AckWithoutFollowup ==
  \A t \in Tasks :
    (task[t].exit \in {"deadline", "ack_timeout"} /\ task[t].exitAck) =>
      (task[t].exit = "ack_timeout" /\ ~task[t].exitLate)

\* C7: taking a message of another idp changes nothing of the waiting
\* exchange (it is still waiting, for the same idp, its ACK flag as before),
\* and an exchange ends only by taking the payload of its request or at one
\* of its two deadlines.
C7_NonMatchingIgnored ==
  [][\A t \in Tasks :
       /\ (Takes(t) /\ Head(queue[ClientOf(t)]).idp # task[t].idp) =>
            task'[t] = [task[t] EXCEPT !.skipped = TRUE]
       /\ ExchangeEnds(t) =>
            \/ TakesPayload(t)
            \/ DeadlinePassed(task[t])
            \/ AckExpired(task[t])]_vars

\* An exchange that took a message of another idp and is waiting, no ACK
\* recorded.
C7_Witness ==
  \E t \in Tasks :
    /\ task[t].pc = "wait"
    /\ task[t].skipped
    /\ ~task[t].got_ack

\* Command packets the operation of a task has sent for certain: those of
\* its current run of _execute_command_with_retry, and one for every earlier
\* run (a run sends its first packet before it can end).
CmdSentAtLeast(tk) == tk.nExecCmd + (IF tk.nRuns > 1 THEN tk.nRuns - 1 ELSE 0)

\* C8 as claimed: an operation transmits at most retry_attempts x
\* idp_sync_attempts command packets.
C8_Original ==
  \A t \in Tasks : CmdSentAtLeast(task[t]) <= RetryAttempts * MaxIdpSync

\* C8: every operation that was started ends, whatever the device sends; one
\* run of _execute_command_with_retry makes at most retry_attempts outer
\* attempts of at most max_idp_sync exchanges and so sends at most
\* retry_attempts x max_idp_sync command packets; an operation is one such
\* run, or two of them for a gated operation called without force.
C8_Terminates ==
  /\ [](\A t \in Tasks :
          /\ task[t].attempt <= RetryAttempts
          /\ task[t].idp_sync_attempt < MaxIdpSync
          /\ task[t].nExecCmd <= RetryAttempts * MaxIdpSync
          /\ task[t].nRuns <= (IF Gated(task[t].op) /\ ~task[t].op.force THEN 2 ELSE 1))
  /\ (task["t1"].pc \in {"wait", "sleep"}) ~> (task["t1"].pc = "done")

\* A gated operation that used its second budget to the last packet and
\* ended.
C8_Witness ==
  \E t \in Tasks :
    /\ task[t].pc = "done"
    /\ task[t].nRuns = 2
    /\ task[t].nExecCmd = RetryAttempts * MaxIdpSync
    /\ task[t].result = "AttributeError"

\* C9 as claimed: an operation whose last run of the engine used the whole
\* budget without a payload ends with a Timeout failure.
C9_TimeoutOnExhaustion ==
  \A t \in Tasks :
    (/\ task[t].pc = "done"
     /\ task[t].nFail = MaxAttempts(task[t]) * MaxIdpSync) =>
      task[t].result = "TimeoutError"

\* C10: the counter is set to the start of the range exactly in the step in
\* which the last inner exchange of an outer attempt fails while another outer
\* attempt remains; no packet is sent in that step or before the delay is
\* over; the step in which the last outer attempt fails leaves the counter
\* alone.
C10_ResetBetweenAttempts ==
  /\ [][\A t \in Tasks :
          LET c == ClientOf(t)
              lastInner == /\ task[t].pc = "wait"
                           /\ task'[t].nFail = task[t].nFail + 1
                           /\ task[t].idp_sync_attempt = MaxIdpSync - 1 IN
          /\ (lastInner /\ task[t].attempt < MaxAttempts(task[t])) =>
               /\ task'[t].nReset = task[t].nReset + 1
               /\ idpCounter'[c] = idpRangeStart[c]
               /\ task'[t].pc = "sleep"
               /\ task'[t].nExecCmd = task[t].nExecCmd
          /\ (lastInner /\ task[t].attempt = MaxAttempts(task[t])) =>
               /\ task'[t].pc = "done"
               /\ task'[t].nReset = task[t].nReset
               /\ idpCounter'[c] = idpCounter[c]
          /\ (task[t].pc = "wait" /\ task'[t].nReset # task[t].nReset) =>
               (lastInner /\ task[t].attempt < MaxAttempts(task[t]))]_vars
  /\ [](\A t \in Tasks :
          /\ task[t].pc \in {"wait", "sleep"} => task[t].nReset = task[t].attempt - 1
          /\ task[t].pc = "sleep" =>
               /\ idpCounter[ClientOf(t)] = idpRangeStart[ClientOf(t)]
               /\ task[t].nExecCmd = (task[t].attempt - 1) * MaxIdpSync)

\* An operation that failed after its last outer attempt: the counter was
\* reset after each attempt but the last, and is where the last attempt
\* left it.
C10_Witness ==
  \E t \in Tasks :
    /\ task[t].pc = "done"
    /\ task[t].result = "TimeoutError"
    /\ task[t].nReset = RetryAttempts - 1
    /\ task[t].nFail = RetryAttempts * MaxIdpSync
    /\ idpCounter[ClientOf(t)] # idpRangeStart[ClientOf(t)]

\* C11 as claimed: while an exchange waits for the payload of its request
\* and its deadlines have not passed, that payload leaves the session's queue
\* only by being returned to that exchange.
C11_OwnPayloadReceived ==
  [][\A u \in Tasks :
       LET c == ClientOf(u) IN
       (/\ task[u].pc = "wait"
        /\ ~DeadlinePassed(task[u])
        /\ ~AckExpired(task[u])
        /\ queue[c] # <<>>
        /\ Head(queue[c]).idp = task[u].idp
        /\ Head(queue[c]).res # AckRes
        /\ queue'[c] = Tail(queue[c])) =>
         task'[u].nOk = task[u].nOk + 1]_vars

\* C12: a gated operation called without force that ended with
\* NotSupportedError has sent its status query and no upd_pico packet.
C12_NoMutatingPacket ==
  \A t \in Tasks :
    (/\ task[t].pc = "done"
     /\ task[t].result = "NotSupportedError") =>
      /\ Gated(task[t].op)
      /\ ~task[t].op.force
      /\ ~task[t].sentUpd

\* A gated operation ended with NotSupportedError after its status query was
\* answered.
C12_Witness ==
  \E t \in Tasks :
    /\ task[t].pc = "done"
    /\ task[t].result = "NotSupportedError"
    /\ Gated(task[t].op)
    /\ ~task[t].op.force
    /\ task[t].nOk = 1
    /\ ~task[t].sentUpd

\* C13 as claimed: set_night_mode without force that ended with
\* NotSupportedError has sent no packet of any kind.
C13_ZeroPackets ==
  \A t \in Tasks :
    (/\ task[t].pc = "done"
     /\ task[t].result = "NotSupportedError"
     /\ task[t].op.kind = "set_night_mode"
     /\ ~task[t].op.force) =>
      (task[t].nExecCmd = 0 /\ task[t].nAck = 0)

\* C13: set_night_mode without force ends with NotSupportedError in the step
\* that takes a status payload reporting a mode off the night-mode list; by
\* then the call has run the engine once, for the status query, and has sent
\* between one and retry_attempts x max_idp_sync stato_sync packets, one
\* closing ACK and no upd_pico packet.
C13_NightModeRefused ==
  /\ [][\A t \in Tasks :
          (/\ TakesPayload(t)
           /\ CanSend(ClientOf(t))
           /\ task[t].op.kind = "set_night_mode"
           /\ ~task[t].op.force
           /\ task[t].stage = "status"
           /\ Head(queue[ClientOf(t)]).mod \in {"hum", "oth"}) =>
            (task'[t].pc = "done" /\ task'[t].result = "NotSupportedError")]_vars
  /\ [](\A t \in Tasks :
          (/\ task[t].pc = "done"
           /\ task[t].result = "NotSupportedError"
           /\ task[t].op.kind = "set_night_mode") =>
            /\ ~task[t].op.force
            /\ task[t].nRuns = 1
            /\ task[t].nExecCmd >= 1
            /\ task[t].nExecCmd <= RetryAttempts * MaxIdpSync
            /\ task[t].nAck = 1
            /\ ~task[t].sentUpd)

\* set_night_mode refused after a status query that needed more than one
\* packet.
C13_Witness ==
  \E t \in Tasks :
    /\ task[t].pc = "done"
    /\ task[t].result = "NotSupportedError"
    /\ task[t].op.kind = "set_night_mode"
    /\ task[t].nExecCmd > 1
    /\ task[t].nAck = 1

\* The reported mode is absent from the list the operation checks.
OffList(kind, mod) ==
  CASE kind = "change_fan_speed" -> mod \in {"hum", "oth"}
    [] kind = "set_night_mode" -> mod \in {"hum", "oth"}
    [] kind = "set_target_humidity" -> mod \in {"fan", "oth"}
    [] OTHER -> FALSE

\* The status query of a gated operation called without force is answered
\* in this step with a mode absent from the operation's list.
StatusOffList(t) ==
  /\ TakesPayload(t)
  /\ CanSend(ClientOf(t))
  /\ Gated(task[t].op)
  /\ ~task[t].op.force
  /\ task[t].stage = "status"
  /\ OffList(task[t].op.kind, Head(queue[ClientOf(t)]).mod)

\* C14 as claimed: whatever the arguments, the operation then fails with
\* NotSupportedError.
C14_OffListRefused ==
  [][\A t \in Tasks :
       StatusOffList(t) =>
         (task'[t].pc = "done" /\ task'[t].result = "NotSupportedError")]_vars

\* C14: the operation then fails with NotSupportedError, except
\* change_fan_speed with percentage 100, which goes on to send its command.
C14_OffListRefusedUnlessFull ==
  [][\A t \in Tasks :
       StatusOffList(t) =>
         IF task[t].op.kind = "change_fan_speed" /\ task[t].op.full
           THEN /\ task'[t].pc = "wait"
                /\ task'[t].stage = "command"
                /\ task'[t].sentUpd
           ELSE /\ task'[t].pc = "done"
                /\ task'[t].result = "NotSupportedError"]_vars

\* set_target_humidity refused after its status query was answered.
C14_Witness ==
  \E t \in Tasks :
    /\ task[t].pc = "done"
    /\ task[t].result = "NotSupportedError"
    /\ task[t].op.kind = "set_target_humidity"
    /\ ~task[t].op.force
    /\ task[t].exit = "payload"

\* C15 as claimed: an operation that is in flight when its device is
\* unregistered, and ends while the device is unregistered, ends with a
\* timeout.
C15_InFlightTimesOut ==
  [][\A t \in Tasks :
       (/\ task[t].pc \in {"wait", "sleep"}
        /\ ~CanSend(ClientOf(t))
        /\ task'[t].pc = "done") =>
         task'[t].result = "TimeoutError"]_vars

\* C16: a connect that registers an id that is registered already gets the
\* range of the existing registration and leaves the device table, the
\* allocator's pointer and the allocations made so far as they were.
C16_RegisterIdempotent ==
  [][\A c \in Clients :
       LET d == DeviceIdOf(c) IN
       (Registered(d) /\ ~connected[c] /\ connected'[c]) =>
         /\ devices' = devices
         /\ nextIdpRange' = nextIdpRange
         /\ allocLog' = allocLog
         /\ idpRangeStart'[c] = devices[d].start
         /\ idpRangeSize'[c] = devices[d].size]_vars

\* Two clients of one device id connected, on the one range allocated.
C16_Witness ==
  /\ connected["c1"] /\ connected["c3"]
  /\ Registered("d1")
  /\ idpRangeStart["c1"] = idpRangeStart["c3"]
  /\ Len(allocLog) = 1
  /\ nextIdpRange = FirstIdpRange + IdpRangeSize

\* C17: the ranges of any two allocations ever made, released or not, have
\* no idp in common, and no idp lies in the ranges of two registrations.
C17_NoRangeReuse ==
  /\ \A j, k \in 1 .. Len(allocLog) :
       j < k => allocLog[j].start + allocLog[j].size <= allocLog[k].start
  /\ \A idp \in RegIdps \cup (0 .. FirstIdpRange + (MaxAlloc + 1) * IdpRangeSize) :
       Cardinality(Claimants(idp)) <= 1

\* An id registered again after it was unregistered, on a later range than
\* its first one, while the other id is registered.
C17_Witness ==
  /\ \A d \in DeviceIds : Registered(d)
  /\ \E j, k \in 1 .. Len(allocLog) :
       /\ j < k
       /\ allocLog[j].id = allocLog[k].id
       /\ devices[allocLog[k].id].start = allocLog[k].start
       /\ allocLog[j].start < allocLog[k].start

\* The wrapped operation is invoked in this step.
Invoked == wrap'.nInvoke = wrap.nInvoke + 1

C19_NotSupportedPropagates ==
  [][(Invoked /\ wrap'.lastOutcome = "NotSupportedError") =>
       /\ wrap'.pc = "done"
       /\ wrap'.result = "raise"
       /\ wrap'.raised = "NotSupportedError"
       /\ ~wrap'.wrapped
       /\ wrap'.nTeardown = wrap.nTeardown
       /\ wrap'.nRebind = wrap.nRebind]_vars

\* With auto-reconnect on, NotSupportedError left the wrapper after the one
\* invocation of the call.
C19_Witness ==
  /\ wrap.pc = "done"
  /\ wrap.enabled
  /\ wrap.raised = "NotSupportedError"
  /\ wrap.nInvoke = 1
  /\ wrap.nTeardown = 0
  /\ wrap.nRebind = 0

\* C20 as claimed: with auto-reconnect on, the step in which the wrapped
\* operation raises the TimeoutError of get_status ends the call with that
\* exception, without disconnect(), connect() or another invocation.
C20_TimeoutPropagates ==
  [][(Invoked /\ wrap'.enabled /\ wrap'.lastOutcome = "TimeoutError") =>
       /\ wrap'.pc = "done"
       /\ wrap'.raised = "TimeoutError"
       /\ wrap'.nTeardown = wrap.nTeardown
       /\ wrap'.nRebind = wrap.nRebind]_vars

\* C21: with auto-reconnect off, the call is over in the step that makes
\* it: the operation was invoked once, no disconnect() and no connect() of
\* the reconnection path ran, and the wrapper returned the operation's value
\* or let its exception through as it was, a connection failure included.
C21_DisabledRunsDirectly ==
  /\ [][(wrap.pc = "idle" /\ wrap'.pc # "idle" /\ ~wrap'.enabled) =>
          /\ wrap'.pc = "done"
          /\ wrap'.nInvoke = 1
          /\ wrap'.lastOutcome = "ok" => wrap'.result = "value"
          /\ wrap'.lastOutcome # "ok" =>
               /\ wrap'.result = "raise"
               /\ wrap'.raised = wrap'.lastOutcome
               /\ ~wrap'.wrapped]_vars
  /\ []((wrap.pc # "idle" /\ ~wrap.enabled) =>
          /\ wrap.nInvoke = 1
          /\ wrap.nTeardown = 0
          /\ wrap.nRebind = 0
          /\ wrap.attempt = 0)

\* With auto-reconnect off, the OSError of the operation left the wrapper
\* after one invocation.
C21_Witness ==
  /\ wrap.pc = "done"
  /\ ~wrap.enabled
  /\ wrap.nInvoke = 1
  /\ wrap.result = "raise"
  /\ wrap.raised = "OSError"
  /\ ~wrap.wrapped

\* Datagrams that are not JSON.
Malformed == {"not_utf8", "not_json"}

\* This step is datagram_received taking a datagram (a step of a callback
\* task shortens rx.scheduled).
Arrives == rx' # rx /\ Len(rx'.scheduled) >= Len(rx.scheduled)

\* The datagram taken in this step is the object rx'.msg and it is routed
\* by its idp: appended to the queue of the one registration whose range
\* holds it, or to no queue when no range holds it.
RoutedNormally ==
  LET m == rx'.msg IN
  /\ (m.idp # NoIdp /\ Cardinality(Claimants(m.idp)) = 1) =>
       LET d == CHOOSE x \in Claimants(m.idp) : TRUE IN
       /\ queue' = [queue EXCEPT ![devices[d].owner] = Append(@, m)]
       /\ rx'.outcome = "delivered"
  /\ (m.idp = NoIdp \/ Claimants(m.idp) = {}) =>
       /\ queue' = queue
       /\ rx'.outcome \in {"no_idp", "no_device"}

\* C22: a datagram that is not JSON changes no queue, creates no callback
\* task, changes no task of a caller and raises nothing out of
\* datagram_received, and an object that comes right after it is routed by
\* its idp as always.
C22_MalformedDropped ==
  /\ [](~rx.raised)
  /\ [][(Arrives /\ rx'.data \in Malformed) =>
          /\ queue' = queue
          /\ rx'.scheduled = rx.scheduled
          /\ rx'.outcome = "dropped"
          /\ task' = task
          /\ devices' = devices]_vars
  /\ [][(rx.data \in Malformed /\ rx'.data = "object") => RoutedNormally]_vars

\* An object was delivered to the queue of c2 right after a datagram whose
\* bytes are not UTF-8.
C22_Witness ==
  /\ rx.prev = "not_utf8"
  /\ rx.data = "object"
  /\ rx.outcome = "delivered"
  /\ queue["c2"] # <<>>

\* C23: the step that creates the callback task has put the message in
\* the queue of the registration that owns its idp; the run of a callback,
\* failing or not, changes no queue, no registration and no task of a
\* caller and raises nothing; and an object that comes after a callback has
\* failed is routed by its idp as always.
C23_CallbackIsolated ==
  /\ [][(Len(rx'.scheduled) > Len(rx.scheduled)) =>
          /\ RoutedNormally
          /\ rx'.outcome = "delivered"]_vars
  /\ [][(Len(rx'.scheduled) < Len(rx.scheduled)) =>
          /\ queue' = queue
          /\ devices' = devices
          /\ task' = task
          /\ ~rx'.raised]_vars
  /\ [][(Arrives /\ rx'.data = "object" /\ rx.cbLast = "failed") => RoutedNormally]_vars

\* A callback failed while the exchange of t1 was pending, and the next
\* message was delivered to the queue of c1 for it.
C23_Witness ==
  /\ rx.after = "failed"
  /\ rx.outcome = "delivered"
  /\ task["t1"].pc = "wait"
  /\ queue["c1"] # <<>>

\* In this step task t ends an exchange without a response and begins the
\* next one of the same outer attempt.
NextExchange(t) ==
  /\ task[t].pc = "wait"
  /\ task'[t].pc = "wait"
  /\ task'[t].nRuns = task[t].nRuns
  /\ task'[t].attempt = task[t].attempt
  /\ task'[t].nExecCmd = task[t].nExecCmd + 1

\* The counter value after i in the range of client c.
Succ(c, i) ==
  IF i + 1 >= idpRangeStart[c] + idpRangeSize[c] THEN idpRangeStart[c] ELSE i + 1

\* C24 as stated: the next exchange of an outer attempt carries the counter
\* value after the one of the exchange before it, and so another idp when
\* the range holds more than one.
C24_SuccessiveIdps ==
  [][\A t \in Tasks :
       NextExchange(t) =>
         /\ task'[t].idp = Succ(ClientOf(t), task[t].idp)
         /\ idpRangeSize[ClientOf(t)] > 1 => task'[t].idp # task[t].idp]_vars

\* C24, amended: every exchange carries the value its own call of
\* _get_next_idp returned, which advanced the counter; the next exchange of
\* an outer attempt carries the counter value after the one of the exchange
\* before it, and so another idp when the range holds more than one,
\* provided no other operation of the session has called _get_next_idp or
\* _reset_idp_counter in between.
C24_SuccessiveIdpsWhenAlone ==
  [][\A t \in Tasks :
       /\ (task'[t].pc = "wait" /\ task'[t].nExecCmd # task[t].nExecCmd) =>
            /\ task'[t].idp = idpCounter[ClientOf(t)]
            /\ idpCounter'[ClientOf(t)] = Succ(ClientOf(t), task'[t].idp)
       /\ (NextExchange(t) /\ task[t].alone) =>
            /\ task'[t].idp = Succ(ClientOf(t), task[t].idp)
            /\ idpRangeSize[ClientOf(t)] > 1 => task'[t].idp # task[t].idp]_vars

\* Task t1 is in its third exchange or a later one, no other task has used
\* the counter since it began, and t2 has an exchange in flight too.
C24_Witness ==
  /\ task["t1"].pc = "wait"
  /\ task["t1"].nExecCmd >= 3
  /\ task["t1"].alone
  /\ task["t2"].pc = "wait"

\* C25: the first outer attempt of a run begins its exchange in the step
\* that starts the run; an outer attempt after the first begins when a sleep
\* of retry_delay, entered in the step that ended the attempt before it, has
\* run out, and its first exchange begins in that step; within an outer
\* attempt the next exchange begins in the step that ended the one before.
C25_DelayBetweenAttemptsOnly ==
  /\ [][\A t \in Tasks :
          /\ (task'[t].nRuns # task[t].nRuns /\ task'[t].nRuns > 0) =>
               /\ task'[t].attempt = 1
               /\ task'[t].pc # "sleep"
               /\ task'[t].pc = "wait" => task'[t].nExecCmd = 1
          /\ (task'[t].pc = "sleep" /\ task[t].pc # "sleep") =>
               /\ task[t].pc = "wait"
               /\ task[t].idp_sync_attempt = MaxIdpSync - 1
               /\ task'[t].attempt = task[t].attempt + 1
               /\ task'[t].attempt <= MaxAttempts(task[t])
               /\ task'[t].sleepLeft = RetryDelay
          /\ (task[t].pc = "sleep" /\ task'[t].pc # "sleep") =>
               /\ task[t].sleepLeft = 0
               /\ task'[t].attempt = task[t].attempt
               /\ task'[t].idp_sync_attempt = 0
               /\ task'[t].nExecCmd = task[t].nExecCmd + 1
          /\ (task[t].pc = "sleep" /\ task'[t].pc = "sleep") =>
               task'[t].sleepLeft \in {task[t].sleepLeft, task[t].sleepLeft - 1}
          /\ NextExchange(t) =>
               /\ task'[t].idp_sync_attempt = task[t].idp_sync_attempt + 1
               /\ task'[t].elapsed = 0]_vars
  /\ [](\A t \in Tasks :
          task[t].pc = "sleep" => task[t].attempt > 1 /\ task[t].sleepLeft \in 0 .. RetryDelay)

\* The third outer attempt has begun: two delays were slept.
C25_Witness ==
  /\ task["t1"].pc = "wait"
  /\ task["t1"].attempt = RetryAttempts
  /\ task["t1"].nExecCmd = 2 * MaxIdpSync + 2

\* C26: with several operations running on one client, every call of
\* _get_next_idp returns the counter as the call before it left it, that
\* is the value after the one the call before returned, whichever task made
\* that call, and leaves the counter one further; after n calls since the
\* connect the counter stands n steps (modulo the size) after the start.
C26_NextIdpAtomic ==
  /\ [][\A t \in Tasks :
          LET c == ClientOf(t) IN
          (task'[t].nExecCmd # task[t].nExecCmd /\ task'[t].pc = "wait") =>
            /\ task'[t].idp = idpCounter[c]
            /\ idpCounter'[c] = Succ(c, idpCounter[c])
            /\ (idpLog[c].fresh /\ idpLog[c].n >= 1 /\ idpLog[c].n < LogCap) =>
                 /\ task'[t].idp = Succ(c, idpLog[c].last)
                 /\ idpRangeSize[c] > 1 => task'[t].idp # idpLog[c].last]_vars
  /\ [](\A c \in Clients :
          (connected[c] /\ idpLog[c].fresh) =>
            idpCounter[c] = idpRangeStart[c] + (idpLog[c].n % idpRangeSize[c]))

\* Both tasks have an exchange in flight on c1, the one of t2 begun after
\* the one of t1, and each with its own idp.
C26_Witness ==
  /\ task["t1"].pc = "wait"
  /\ task["t2"].pc = "wait"
  /\ ~task["t1"].alone
  /\ task["t2"].alone
  /\ task["t1"].idp # task["t2"].idp

\* The exchange task t was waiting in is still the one in flight after this
\* step.
ExchangeContinues(t) ==
  /\ task'[t].pc = "wait"
  /\ task'[t].nExecCmd = task[t].nExecCmd
  /\ task'[t].nRuns = task[t].nRuns

\* C27: a frame taken from the queue with the idp of the exchange in
\* flight: with res 99 from "mst" it sets got_ack and the time of the ACK
\* and the exchange goes on waiting; with any other res, or none, it ends
\* the exchange with success (closing ACK sent, the frame returned) whether
\* got_ack was set or not; with res 99 from another sender it changes
\* nothing and the exchange goes on waiting.
C27_FrameClassification ==
  [][\A t \in Tasks :
       LET tk == task[t]
           m == Head(queue[ClientOf(t)]) IN
       (Takes(t) /\ m.idp = tk.idp) =>
         /\ (m.res = AckRes /\ m.frm = "mst") =>
              task'[t] = [tk EXCEPT !.got_ack = TRUE, !.ack_received_time = tk.elapsed]
         /\ (m.res # AckRes) =>
              /\ task'[t].nOk = tk.nOk + 1
              /\ task'[t].okIdp = tk.idp
              /\ task'[t].nAck = tk.nAck + 1
              /\ task'[t].ackIdp = tk.idp
              /\ task'[t].exit = "payload"
              /\ ~ExchangeContinues(t)
         /\ (m.res = AckRes /\ m.frm # "mst") =>
              task'[t] = tk]_vars

\* An exchange has ended with success on a frame taken before any ACK.
C27_Witness ==
  /\ task["t1"].nOk = 1
  /\ ~task["t1"].got_ack
  /\ task["t1"].exit = "payload"

\* C28: a gated operation called with force on a connected client is never
\* in its status query: its one run of _execute_command_with_retry is the
\* one of the upd_pico command, whose first packet is sent in the step of
\* the call, and it never ends with NotSupportedError, whatever mode the
\* device reports.
C28_ForceSkipsGate ==
  \A t \in Tasks :
    (task[t].pc # "idle" /\ Gated(task[t].op) /\ task[t].op.force) =>
      /\ task[t].result # "NotSupportedError"
      /\ task[t].result # "ConnectionError" =>
           /\ task[t].stage = "command"
           /\ task[t].nRuns = 1
           /\ task[t].sentUpd

\* set_target_humidity with force sent its command and got it answered.
C28_Witness ==
  /\ task["t1"].pc = "done"
  /\ task["t1"].op.kind = "set_target_humidity"
  /\ task["t1"].op.force
  /\ task["t1"].result = "ok"
  /\ task["t1"].sentUpd
  /\ lastRoute = "delivered"

\* C29: the payload an exchange returns with is the device's answer to the
\* request of that exchange, not an answer to an earlier request that
\* carried the same idp.
C29_OwnReplyOnly ==
  [][\A t \in Tasks :
       TakesPayload(t) => Head(queue[ClientOf(t)]).re = task[t].nExecCmd]_vars

\* C30: every connected client has a registration under its device id whose
\* response queue is the client's own queue and whose range is the range
\* the client draws its idps from.
C30_ConnectedOwnsRegistration ==
  \A c \in Clients :
    connected[c] =>
      /\ Registered(DeviceIdOf(c))
      /\ devices[DeviceIdOf(c)].owner = c
      /\ devices[DeviceIdOf(c)].start = idpRangeStart[c]
      /\ devices[DeviceIdOf(c)].size = idpRangeSize[c]


\* The clients whose connect() call is inside create_datagram_endpoint.
Binding(b) == {c \in Clients : b.pc[c] = "binding"}

\* C31: under any interleaving of connect() calls of several clients, the
\* manager is created once and the endpoint is bound at most once; at most
\* one call is binding at a time; a call that starts while another one is
\* binding waits for the lock; and a call that leaves the wait after the
\* endpoint was bound returns without binding again and connects.
C31_BoundOnce ==
  [][/\ boot'.nInstances <= 1
     /\ boot'.nBinds <= 1
     /\ Cardinality(Binding(boot')) <= 1
     /\ \A c \in Clients :
          /\ (boot.pc[c] = "idle" /\ boot'.pc[c] # "idle" /\ Binding(boot) # {})
               => boot'.pc[c] = "wait_lock"
          /\ (boot.pc[c] = "wait_lock" /\ boot'.pc[c] # "wait_lock" /\ boot.nBinds = 1)
               => /\ boot'.nBinds = 1
                  /\ boot'.pc[c] = "idle"
                  /\ connected'[c]]_vars

\* C31 witness: c2 called connect() while another call was binding, waited,
\* and both clients are connected over the one endpoint.
C31_Witness ==
  /\ connected["c1"] /\ connected["c2"]
  /\ "c2" \in boot.waited /\ "c1" \notin boot.waited
  /\ boot.nBinds = 1 /\ boot.nInstances = 1


\* C32: a message is put on a client's queue only if it was received from
\* the address the client registered for its device, and the payload an
\* exchange returns with was received from that address.
C32_RegisteredSenderOnly ==
  [][\A c \in Clients :
       /\ Len(queue'[c]) > Len(queue[c]) =>
            queue'[c][Len(queue'[c])].addr = RemoteAddr(c)
       /\ \A t \in Tasks :
            (ClientOf(t) = c /\ TakesPayload(t)) =>
              Head(queue[c]).addr = RemoteAddr(c)]_vars

====
